---- MODULE Spec2Model ----
(***************************************************************************)
(* The physics worker of qb20nh/roll (src/physics-worker.js, the worker    *)
(* whose message handler starts at line 388): one shard that owns a list   *)
(* of SimSystem objects, advances them by sub-stepped integration, and     *)
(* answers 'init' / 'update' / 'reset' messages, writing the observable    *)
(* state into a transferable Float32Array buffer.                          *)
(*                                                                         *)
(* NUMBERS.  A JavaScript number is an IEEE-754 binary float: 53-bit       *)
(* significand, every operation rounded to nearest, ties to even.  The     *)
(* model keeps exactly that arithmetic but narrows the significand to Prec *)
(* bits (and to F32Prec bits for the Float32Array store), and leaves the   *)
(* exponent unbounded; a number is a record [m, e] standing for m * 2^e    *)
(* with 2^(Prec-1) <= |m| < 2^Prec, or m = 0.  Every operation of the      *)
(* source is one rounded operation of the model, in the source's order.    *)
(* Non-finite values (NaN, Infinity) are outside the model: the time       *)
(* deltas the coordinator sends are finite.                                *)
(***************************************************************************)
EXTENDS Integers, Sequences, FiniteSets

\* Width of the significand of a number (53 in the program).
Prec == 14
\* Width of the significand of a Float32Array element (24 in the program).
F32Prec == 9

---------------------------------------------------------------------------
(* Rounded binary floating point.                                          *)

Abs(n) == IF n < 0 THEN -n ELSE n
Sgn(n) == IF n < 0 THEN -1 ELSE IF n > 0 THEN 1 ELSE 0

RECURSIVE BitLen(_)
BitLen(n) == IF n = 0 THEN 0 ELSE 1 + BitLen(n \div 2)

Zero == [m |-> 0, e |-> 0]

\* n / 2^k for n >= 0, k >= 1, rounded to nearest, ties to even.
RoundShift(n, k) ==
    LET q == n \div (2^k)
        r == n % (2^k)
        h == 2^(k-1)
    IN  IF r > h \/ (r = h /\ q % 2 = 1) THEN q + 1 ELSE q

\* The number nearest to n * 2^e whose significand has p bits.
RoundTo(n, e, p) ==
    IF n = 0 THEN Zero
    ELSE LET a == Abs(n)
             len == BitLen(a)
         IN  IF len <= p
             THEN [m |-> Sgn(n) * a * 2^(Prec - len), e |-> e - (Prec - len)]
             ELSE LET k == len - p
                      q == RoundShift(a, k)
                      ql == BitLen(q)
                  IN  IF ql > Prec
                      THEN [m |-> Sgn(n) * 2^(Prec - 1), e |-> e + k + 1]
                      ELSE [m |-> Sgn(n) * q * 2^(Prec - ql),
                            e |-> e + k - (Prec - ql)]

Norm(n, e) == RoundTo(n, e, Prec)

FromInt(n) == Norm(n, 0)
FNeg(a) == [m |-> -a.m, e |-> a.e]
FAbs(a) == [m |-> Abs(a.m), e |-> a.e]

FAdd(a, b) ==
    IF a.m = 0 THEN b
    ELSE IF b.m = 0 THEN a
    ELSE LET hi == IF a.e >= b.e THEN a ELSE b
             lo == IF a.e >= b.e THEN b ELSE a
             d == hi.e - lo.e
         IN  IF d >= Prec + 2 THEN hi
             ELSE Norm(hi.m * 2^d + lo.m, lo.e)

FSub(a, b) == FAdd(a, FNeg(b))

FMul(a, b) == Norm(a.m * b.m, a.e + b.e)

\* a / b, b # 0: one extra low bit records an inexact quotient.
FDiv(a, b) ==
    IF a.m = 0 THEN Zero
    ELSE LET na == Abs(a.m) * 2^(Prec + 1)
             nb == Abs(b.m)
             q == na \div nb
             r == na % nb
         IN  Norm(Sgn(a.m) * Sgn(b.m) * (2 * q + (IF r = 0 THEN 0 ELSE 1)),
                  a.e - b.e - Prec - 2)

RECURSIVE SqrtIter(_, _, _)
SqrtIter(n, r, bit) ==
    IF bit = 0 THEN r
    ELSE LET c == r + bit
         IN  IF c <= n \div c THEN SqrtIter(n, c, bit \div 2)
             ELSE SqrtIter(n, r, bit \div 2)

\* The integer square root of n >= 0.
ISqrt(n) == SqrtIter(n, 0, 2^Prec)

\* Math.sqrt(a), a >= 0: two extra low bits place the root against the
\* nearest rounding boundary.
FSqrt(a) ==
    IF a.m = 0 THEN Zero
    ELSE LET sh == IF (a.e - Prec) % 2 = 0 THEN Prec ELSE Prec + 1
             n == a.m * 2^sh
             r == ISqrt(n)
             rem == n - r * r
             n4 == IF rem = 0 THEN 4 * r ELSE IF rem > r THEN 4 * r + 3 ELSE 4 * r + 1
         IN  Norm(n4, ((a.e - sh) \div 2) - 2)

FLt(a, b) == FSub(a, b).m < 0
FLe(a, b) == FSub(a, b).m <= 0
FGt(a, b) == FSub(a, b).m > 0
FGe(a, b) == FSub(a, b).m >= 0
FMin(a, b) == IF FLt(b, a) THEN b ELSE a
FMax(a, b) == IF FGt(b, a) THEN b ELSE a

\* A decimal literal num/den of the source text, as the parser rounds it.
Lit(num, den) == FDiv(FromInt(num), FromInt(den))

\* Storing into a Float32Array element rounds to the narrower significand.
ToF32(a) == RoundTo(a.m, a.e, F32Prec)

---------------------------------------------------------------------------
(* Physics constants.                                                      *)

SUB_STEPS == 16
GRAVITY == FMul(Lit(981, 100), FromInt(100))
CONTAINER_RADIUS == 300
BALL_RADIUS == 30
BALL_MASS == 10
CONTAINER_MASS == 200
RESTITUTION_NORMAL == 1
RESTITUTION_TANGENT == 1
NUM_SYSTEMS == 64
STATE_STRIDE == 4

One == FromInt(1)
Half == Lit(5, 10)
\* The literal 0.000001 of correctEnergy.
Tiny == Lit(1, 1000000)

---------------------------------------------------------------------------
(* class SimSystem.                                                        *)

PotentialEnergy(s) == FMul(FMul(FNeg(s.ball.mass), GRAVITY), s.ball.y)

KineticEnergy(s) ==
    FAdd(FAdd(FMul(FMul(Half, s.ball.mass),
                   FAdd(FMul(s.ball.vx, s.ball.vx), FMul(s.ball.vy, s.ball.vy))),
              FMul(FMul(Half, s.ball.inertia),
                   FMul(s.ball.angularVelocity, s.ball.angularVelocity))),
         FMul(FMul(Half, s.container.inertia),
              FMul(s.container.angularVelocity, s.container.angularVelocity)))

\* calculateEnergy(): total is keLin + keRotB + keRotC + pe, added in that order.
EnergyStats(ke, pe) == [total |-> FAdd(ke, pe), pe |-> pe]

calculateEnergy(s) == EnergyStats(KineticEnergy(s), PotentialEnergy(s))

\* The position offset of system id: (id / NUM_SYSTEMS * 0.02) - 0.01.
ResetOffset(id) ==
    FSub(FMul(FDiv(FromInt(id), FromInt(NUM_SYSTEMS)), Lit(2, 100)), Lit(1, 100))

\* A reset(id) that leaves the ball's velocity as it was.
resetKeepsVelocity(s, id) ==
    LET fresh ==
          [s EXCEPT
             !.ball = [x |-> FAdd(One, ResetOffset(id)),
                       y |-> FromInt(-220),
                       vx |-> IF s.ball = << >> THEN Zero ELSE s.ball.vx,
                       vy |-> IF s.ball = << >> THEN Zero ELSE s.ball.vy,
                       angle |-> Zero, angularVelocity |-> Zero,
                       radius |-> FromInt(BALL_RADIUS),
                       mass |-> FromInt(BALL_MASS),
                       inertia |-> FMul(FMul(Half, FromInt(BALL_MASS)),
                                        FMul(FromInt(BALL_RADIUS),
                                             FromInt(BALL_RADIUS)))],
             !.container = [angle |-> Zero, angularVelocity |-> Zero,
                            radius |-> FromInt(CONTAINER_RADIUS),
                            mass |-> FromInt(CONTAINER_MASS),
                            inertia |-> FMul(FromInt(CONTAINER_MASS),
                                             FMul(FromInt(CONTAINER_RADIUS),
                                                  FromInt(CONTAINER_RADIUS)))]]
    IN  [fresh EXCEPT !.initialEnergy = calculateEnergy(fresh).total]

\* A reset(id) that takes the baseline before it overwrites the fields.
resetStaleBaseline(s, id) ==
    LET fresh ==
          [s EXCEPT
             !.ball = [x |-> FAdd(One, ResetOffset(id)),
                       y |-> FromInt(-220),
                       vx |-> Zero, vy |-> Zero,
                       angle |-> Zero, angularVelocity |-> Zero,
                       radius |-> FromInt(BALL_RADIUS),
                       mass |-> FromInt(BALL_MASS),
                       inertia |-> FMul(FMul(Half, FromInt(BALL_MASS)),
                                        FMul(FromInt(BALL_RADIUS),
                                             FromInt(BALL_RADIUS)))],
             !.container = [angle |-> Zero, angularVelocity |-> Zero,
                            radius |-> FromInt(CONTAINER_RADIUS),
                            mass |-> FromInt(CONTAINER_MASS),
                            inertia |-> FMul(FromInt(CONTAINER_MASS),
                                             FMul(FromInt(CONTAINER_RADIUS),
                                                  FromInt(CONTAINER_RADIUS)))]]
    IN  [fresh EXCEPT !.initialEnergy =
            calculateEnergy(IF s.ball = << >> THEN fresh ELSE s).total]

\* reset(id), called on the system s: every ball and container field is
\* overwritten, then the baseline is recomputed from the new fields.
reset(s, id) ==
    LET fresh ==
          [s EXCEPT
             !.ball = [x |-> FAdd(One, ResetOffset(id)),
                       y |-> FromInt(-220),
                       vx |-> Zero, vy |-> Zero,
                       angle |-> Zero, angularVelocity |-> Zero,
                       radius |-> FromInt(BALL_RADIUS),
                       mass |-> FromInt(BALL_MASS),
                       inertia |-> FMul(FMul(Half, FromInt(BALL_MASS)),
                                        FMul(FromInt(BALL_RADIUS),
                                             FromInt(BALL_RADIUS)))],
             !.container = [angle |-> Zero, angularVelocity |-> Zero,
                            radius |-> FromInt(CONTAINER_RADIUS),
                            mass |-> FromInt(CONTAINER_MASS),
                            inertia |-> FMul(FromInt(CONTAINER_MASS),
                                             FMul(FromInt(CONTAINER_RADIUS),
                                                  FromInt(CONTAINER_RADIUS)))]]
    IN  [fresh EXCEPT !.initialEnergy = calculateEnergy(fresh).total]

\* new SimSystem(id): the constructor's blank object, then reset(id).
NewSimSystem(id) ==
    reset([id |-> id, ball |-> << >>, container |-> << >>, initialEnergy |-> Zero], id)

\* The values update(dt) computes once, before its loop.
StepConsts(s, dt) ==
    [subDt |-> FDiv(dt, FromInt(SUB_STEPS)),
     gravitySubDt |-> FMul(GRAVITY, FDiv(dt, FromInt(SUB_STEPS))),
     rB |-> s.ball.radius,
     rC |-> s.container.radius,
     maxDist |-> FSub(s.container.radius, s.ball.radius),
     maxDistSq |-> FMul(FSub(s.container.radius, s.ball.radius),
                        FSub(s.container.radius, s.ball.radius)),
     invMass |-> FDiv(One, s.ball.mass),
     invInertiaB |-> FDiv(One, s.ball.inertia),
     invInertiaC |-> FDiv(One, s.container.inertia),
     effMass |->
        FDiv(One,
             FAdd(FAdd(FDiv(One, s.ball.mass),
                       FMul(FMul(s.ball.radius, s.ball.radius),
                            FDiv(One, s.ball.inertia))),
                  FMul(FMul(s.container.radius, s.container.radius),
                       FDiv(One, s.container.inertia))))]

(* One iteration of the loop of update(dt) is written as a chain of      *)
(* operators, each taking the locals computed so far as parameters, in   *)
(* the order of the source's statements.                                 *)

\* "Apply": the four velocity updates by the tangential impulse jt.
ApplyTangent(s, k, tx, ty, jt, jtInvMass) ==
    [s EXCEPT
       !.ball.vx = FAdd(@, FMul(jtInvMass, tx)),
       !.ball.vy = FAdd(@, FMul(jtInvMass, ty)),
       !.ball.angularVelocity = FAdd(@, FMul(FMul(jt, k.rB), k.invInertiaB)),
       !.container.angularVelocity = FSub(@, FMul(FMul(jt, k.rC), k.invInertiaC))]

\* const jt = -(1 + RESTITUTION_TANGENT) * vRelTan * effMass, and jtInvMass.
TangentImpulse(s, k, tx, ty, jt) == ApplyTangent(s, k, tx, ty, jt, FMul(jt, k.invMass))

\* vtBallSurf, vtWallSurf and vRelTan, on the velocity after the normal impulse.
Tangential(s, k, tx, ty) ==
    TangentImpulse(s, k, tx, ty,
        FMul(FMul(FNeg(FAdd(One, FromInt(RESTITUTION_TANGENT))),
                  FSub(FAdd(FAdd(FMul(s.ball.vx, tx), FMul(s.ball.vy, ty)),
                            FMul(s.ball.angularVelocity, k.rB)),
                       FMul(s.container.angularVelocity, k.rC))),
             k.effMass))

\* b.vx += impulseN * nx; b.vy += impulseN * ny
NormalImpulse(s, k, nx, ny, impulseN) ==
    Tangential([s EXCEPT !.ball.vx = FAdd(@, FMul(impulseN, nx)),
                         !.ball.vy = FAdd(@, FMul(impulseN, ny))],
               k, FNeg(ny), nx)

\* if (vn > 0) { ... }
Respond(s, k, nx, ny, vn) ==
    IF vn.m > 0
    THEN NormalImpulse(s, k, nx, ny,
                       FMul(FNeg(FAdd(One, FromInt(RESTITUTION_NORMAL))), vn))
    ELSE s

\* if (pen > 0) { b.x -= nx * pen; b.y -= ny * pen; }  then vn.
FixPenetration(s, k, nx, ny, pen) ==
    Respond(IF pen.m > 0
            THEN [s EXCEPT !.ball.x = FSub(@, FMul(nx, pen)),
                           !.ball.y = FSub(@, FMul(ny, pen))]
            ELSE s,
            k, nx, ny,
            FAdd(FMul(s.ball.vx, nx), FMul(s.ball.vy, ny)))

\* nx, ny and pen, from the position x, y read before the push-back.
ContactNormal(s, k, dist, invDist) ==
    FixPenetration(s, k, FMul(s.ball.x, invDist), FMul(s.ball.y, invDist),
                   FSub(dist, k.maxDist))

\* const dist = Math.sqrt(distSq); if (dist <= 0) continue;
Collide(s, k, dist) ==
    IF dist.m <= 0 THEN s ELSE ContactNormal(s, k, dist, FDiv(One, dist))

\* A sub-step that runs the collision block whatever distSq is.
TestCollisionAlways(s, k, distSq) == Collide(s, k, FSqrt(distSq))

\* if (distSq >= maxDistSq) { ... }
TestCollision(s, k, distSq) ==
    IF FGe(distSq, k.maxDistSq) THEN Collide(s, k, FSqrt(distSq)) ELSE s

\* "Integration": b.vy first, then the position with the new b.vy.
Integrate(s, k) ==
    [s EXCEPT
       !.ball.vy = FAdd(@, k.gravitySubDt),
       !.ball.x = FAdd(@, FMul(s.ball.vx, k.subDt)),
       !.ball.y = FAdd(@, FMul(FAdd(s.ball.vy, k.gravitySubDt), k.subDt)),
       !.ball.angle = FAdd(@, FMul(s.ball.angularVelocity, k.subDt)),
       !.container.angle = FAdd(@, FMul(s.container.angularVelocity, k.subDt))]

\* const distSq = x * x + y * y, on the integrated position.
Distance(s, k) ==
    TestCollision(s, k, FAdd(FMul(s.ball.x, s.ball.x), FMul(s.ball.y, s.ball.y)))

\* One iteration of the loop of update(dt).
SubStep(s, k) == Distance(Integrate(s, k), k)

\* steps, the systems after the sub-steps so far, with one more sub-step.
NextStep(steps, s, k) ==
    Append(steps, SubStep(IF steps = << >> THEN s ELSE steps[Len(steps)], k))

\* The systems after sub-steps 1 .. n of update(dt) on s.
RECURSIVE SubSteps(_, _, _)
SubSteps(s, k, n) ==
    IF n = 0 THEN << >> ELSE NextStep(SubSteps(s, k, n - 1), s, k)

\* A correction that returns the total from before the scaling.
ApplyScaleStaleTotal(s, stats, currentKE, raw, scale) ==
    [sys |-> IF scale # One
             THEN [s EXCEPT !.ball.vx = FMul(@, scale),
                            !.ball.vy = FMul(@, scale),
                            !.ball.angularVelocity = FMul(@, scale),
                            !.container.angularVelocity = FMul(@, scale)]
             ELSE s,
     ret |-> stats.total,
     branch |-> IF scale = One THEN "one"
                ELSE IF scale = raw THEN "scaled" ELSE "clamped"]

\* A correction that scales the ball's linear velocity only.
ApplyScaleLinearOnly(s, stats, currentKE, raw, scale) ==
    [sys |-> IF scale # One
             THEN [s EXCEPT !.ball.vx = FMul(@, scale),
                            !.ball.vy = FMul(@, scale)]
             ELSE s,
     ret |-> FAdd(stats.pe, FMul(FMul(currentKE, scale), scale)),
     branch |-> IF scale = One THEN "one"
                ELSE IF scale = raw THEN "scaled" ELSE "clamped"]

\* The four multiplications by scale, skipped when scale is 1; the value
\* returned is stats.pe + currentKE * scale * scale.
ApplyScale(s, stats, currentKE, raw, scale) ==
    [sys |-> IF scale # One
             THEN [s EXCEPT !.ball.vx = FMul(@, scale),
                            !.ball.vy = FMul(@, scale),
                            !.ball.angularVelocity = FMul(@, scale),
                            !.container.angularVelocity = FMul(@, scale)]
             ELSE s,
     ret |-> FAdd(stats.pe, FMul(FMul(currentKE, scale), scale)),
     branch |-> IF scale = One THEN "one"
                ELSE IF scale = raw THEN "scaled" ELSE "clamped"]

\* scale = Math.max(0.99, Math.min(1.01, scale)); the clamped scale is one
\* of three finite numbers, so the Number.isFinite exit is not taken.
ClampScale(s, stats, currentKE, raw) ==
    ApplyScale(s, stats, currentKE, raw, FMax(Lit(99, 100), FMin(Lit(101, 100), raw)))

\* A correction with the ratio upside down: sqrt(currentKE / targetKE).
ScaleToTargetInverted(s, stats, currentKE, targetKE) ==
    IF FGt(targetKE, Tiny) /\ FGt(currentKE, Tiny)
    THEN ClampScale(s, stats, currentKE, FSqrt(FDiv(currentKE, targetKE)))
    ELSE [sys |-> s, ret |-> stats.total, branch |-> "lowKE"]

\* if (targetKE > 0.000001 && currentKE > 0.000001) { ... } return stats.total
ScaleToTarget(s, stats, currentKE, targetKE) ==
    IF FGt(targetKE, Tiny) /\ FGt(currentKE, Tiny)
    THEN ClampScale(s, stats, currentKE, FSqrt(FDiv(targetKE, currentKE)))
    ELSE [sys |-> s, ret |-> stats.total, branch |-> "lowKE"]

\* correctEnergy(stats): the system it leaves, the value it returns, and
\* the branch taken.
correctEnergy(s, stats) ==
    IF s.initialEnergy.m = 0 \/ FLt(s.initialEnergy, Tiny)
    THEN [sys |-> s, ret |-> stats.total, branch |-> "baseline"]
    ELSE ScaleToTarget(s, stats, FSub(stats.total, stats.pe),
                       FSub(s.initialEnergy, stats.pe))

\* The end of update(dt): const stats = this.calculateEnergy();
\* return this.correctEnergy(stats).
Corrected(steps, r) ==
    [sys |-> r.sys, ret |-> r.ret, branch |-> r.branch, steps |-> steps]

Finish(steps) ==
    Corrected(steps, correctEnergy(steps[SUB_STEPS], calculateEnergy(steps[SUB_STEPS])))

\* update(dt) on s: the system it leaves (sys), the value it returns (ret),
\* the branch of correctEnergy, and the systems after each sub-step.
update(s, dt) == Finish(SubSteps(s, StepConsts(s, dt), SUB_STEPS))

---------------------------------------------------------------------------
(* The worker and its coordinator.                                         *)

\* The most messages the coordinator sends in one run.
MaxCmds == 4
\* The most messages waiting in the worker's queue at once.
MaxInFlight == 2

\* The time deltas and the id lists the coordinator may send.
DTs == {Zero, FromInt(1)}
IdLists == {<<1>>, <<0, 32>>}

\* msg.buffer of a message that carries none, msg.batchId of one without.
NoBuffer == 0
NoToken == 0

VARIABLES
    systems,    \* let systems: the SimSystem objects, in order
    systemIds,  \* let systemIds
    inbox,      \* messages posted to the worker and not yet handled
    posted,     \* every message the worker has posted, oldest first
    handled,    \* every message the worker has handled, oldest first
    heap,       \* the ArrayBuffers: byteLength, contents, who holds them
    lastRun,    \* per system, what the last 'update' handler's update(dt) did
    probe       \* one SimSystem called directly, without the worker

vars == <<systems, systemIds, inbox, posted, handled, heap, lastRun, probe>>

Known == {"init", "update", "reset"}

\* A switch whose default falls into case 'init'.
DispatchDefaultInit(type) == IF type \in Known THEN type ELSE "init"

\* A switch whose default falls into case 'reset'.
DispatchDefaultReset(type) == IF type \in Known THEN type ELSE "reset"

\* switch (type): the case a message is handled by.
Dispatch(type) == IF type \in Known THEN type ELSE "ignored"

\* A reuse test that does not compare the byte length.
ReusableAnyLength(h, buffer, expectedFloats) == buffer # NoBuffer

\* buffer instanceof ArrayBuffer && buffer.byteLength === expectedFloats * 4
Reusable(h, buffer, expectedFloats) ==
    buffer # NoBuffer /\ h[buffer].byteLength = expectedFloats * 4

\* new ArrayBuffer(bytes), allocated while the worker handles message n.
NewBuffer(bytes, n) ==
    [byteLength |-> bytes,
     data |-> [j \in 1..(bytes \div 4) |-> Zero],
     owner |-> "shard",
     allocatedBy |-> n]

\* Stores with ball.x and ball.y in each other's slot.
WriteSlotsSwapped(out, i, s) ==
    LET base == i * STATE_STRIDE
    IN  [out EXCEPT ![base + 1] = ToF32(s.ball.y),
                    ![base + 2] = ToF32(s.ball.x),
                    ![base + 3] = ToF32(s.ball.angle),
                    ![base + 4] = ToF32(s.container.angle)]

\* The four stores of one loop iteration, for the system at index i (from 0).
WriteSlots(out, i, s) ==
    LET base == i * STATE_STRIDE
    IN  [out EXCEPT ![base + 1] = ToF32(s.ball.x),
                    ![base + 2] = ToF32(s.ball.y),
                    ![base + 3] = ToF32(s.ball.angle),
                    ![base + 4] = ToF32(s.container.angle)]

\* out after the first n iterations of the loop over sys.
RECURSIVE WriteAll(_, _, _)
WriteAll(out, sys, n) ==
    IF n = 0 THEN out ELSE WriteSlots(WriteAll(out, sys, n - 1), n - 1, sys[n])

\* totalEnergy after the first n iterations, rets[i] being what iteration i adds.
RECURSIVE SumEnergy(_, _)
SumEnergy(rets, n) ==
    IF n = 0 THEN Zero ELSE FAdd(SumEnergy(rets, n - 1), rets[n])

\* postMessage(message) without the transfer list: the receiver gets a
\* copy and the buffer stays with the worker.
TransferClone(h, buffer) == h

\* postMessage(message, [buffer]): the buffer moves to the receiver.
Transfer(h, buffer) == [h EXCEPT ![buffer].owner = "coordinator"]

\* A received buffer the handler replaced: nothing refers to it any more.
Release(h, buffer, used) ==
    IF buffer # NoBuffer /\ buffer # used
    THEN [h EXCEPT ![buffer].owner = "released"] ELSE h

InitializedMsg ==
    [type |-> "initialized", batchId |-> NoToken, buffer |-> NoBuffer,
     totalEnergy |-> Zero, data |-> << >>]
\* A 'reset' response that leaves the token out.
ResetMsgNoToken(batchId, buffer, data, totalEnergy) ==
    [type |-> "reset", batchId |-> NoToken, buffer |-> buffer,
     totalEnergy |-> totalEnergy, data |-> data]
UpdatedMsg(batchId, buffer, data, totalEnergy) ==
    [type |-> "updated", batchId |-> batchId, buffer |-> buffer,
     totalEnergy |-> totalEnergy, data |-> data]
ResetMsg(batchId, buffer, data, totalEnergy) ==
    [type |-> "reset", batchId |-> batchId, buffer |-> buffer,
     totalEnergy |-> totalEnergy, data |-> data]

\* The loop of case 'reset': the first n systems after s.reset(s.id).
RECURSIVE ResetAll(_, _)
ResetAll(sys, n) ==
    IF n = 0 THEN << >>
    ELSE Append(ResetAll(sys, n - 1), reset(sys[n], sys[n].id))

\* The loop of case 'update': what s.update(dt) gives for the first n systems.
RECURSIVE UpdateAll(_, _, _)
UpdateAll(sys, dt, n) ==
    IF n = 0 THEN << >>
    ELSE Append(UpdateAll(sys, dt, n - 1), update(sys[n], dt))

\* The systems the constructor makes for the first n ids.
RECURSIVE NewSystems(_, _)
NewSystems(ids, n) ==
    IF n = 0 THEN << >>
    ELSE Append(NewSystems(ids, n - 1), NewSimSystem(ids[n]))

\* Field f of every record of the sequence rs.
RECURSIVE Field(_, _, _)
Field(rs, f, n) == IF n = 0 THEN << >> ELSE Append(Field(rs, f, n - 1), rs[n][f])

\* The ball positions along the sub-steps of one update(dt).
RECURSIVE Path(_, _)
Path(steps, n) ==
    IF n = 0 THEN << >>
    ELSE Append(Path(steps, n - 1), <<steps[n].ball.x, steps[n].ball.y>>)

\* What lastRun keeps of each system's update(dt).
RECURSIVE RunLog(_, _)
RunLog(runs, n) ==
    IF n = 0 THEN << >>
    ELSE Append(RunLog(runs, n - 1),
                [branch |-> runs[n].branch, ret |-> runs[n].ret,
                 path |-> Path(runs[n].steps, SUB_STEPS)])

\* The buffer the handler writes: the one received, or a new one.
\* [id, heap] with the new one, if any, appended.
OutputBuffer(h, msg, expectedFloats, n) ==
    IF Reusable(h, msg.buffer, expectedFloats)
    THEN [id |-> msg.buffer, heap |-> [h EXCEPT ![msg.buffer].owner = "shard"]]
    ELSE [id |-> Len(h) + 1, heap |-> Append(h, NewBuffer(expectedFloats * 4, n))]

Init ==
    /\ systems = << >>
    /\ systemIds = << >>
    /\ inbox = << >>
    /\ posted = << >>
    /\ handled = << >>
    /\ heap = << [byteLength |-> 16, data |-> [j \in 1..4 |-> Zero],
                  owner |-> "coordinator", allocatedBy |-> 0] >>
    /\ lastRun = << >>
    /\ probe = << >>

Sent == Len(handled) + Len(inbox)

\* The buffers the coordinator holds and may hand over.
Held == {b \in 1..Len(heap) : heap[b].owner = "coordinator"}

Msg(type, ids, dt, batchId, buffer) ==
    [type |-> type, systemIds |-> ids, dt |-> dt, batchId |-> batchId,
     buffer |-> buffer]

\* The coordinator posts a message; a buffer it names goes with the message.
Send(m) ==
    /\ Sent < MaxCmds
    /\ Len(inbox) < MaxInFlight
    /\ inbox' = Append(inbox, m)
    /\ heap' = IF m.buffer = NoBuffer THEN heap
               ELSE [heap EXCEPT ![m.buffer].owner = "inflight"]
    /\ UNCHANGED <<systems, systemIds, posted, handled, lastRun, probe>>

SendInit == \E ids \in IdLists : Send(Msg("init", ids, Zero, NoToken, NoBuffer))
SendUpdate ==
    \E dt \in DTs, b \in Held \cup {NoBuffer} : Send(Msg("update", << >>, dt, Sent + 1, b))
SendReset ==
    \E b \in Held \cup {NoBuffer} : Send(Msg("reset", << >>, Zero, Sent + 1, b))
SendOther ==
    \E t \in {"bogus", "undefined"} : Send(Msg(t, << >>, Zero, NoToken, NoBuffer))

\* self.onmessage, case 'init'
HandleInit ==
    /\ inbox # << >>
    /\ Dispatch(inbox[1].type) = "init"
    /\ systemIds' = inbox[1].systemIds
    /\ systems' = NewSystems(inbox[1].systemIds, Len(inbox[1].systemIds))
    /\ posted' = Append(posted, InitializedMsg)
    /\ handled' = Append(handled, inbox[1])
    /\ inbox' = Tail(inbox)
    /\ UNCHANGED <<heap, lastRun, probe>>

\* self.onmessage, case 'update'
HandleUpdate ==
    /\ inbox # << >>
    /\ Dispatch(inbox[1].type) = "update"
    /\ \E runs \in {UpdateAll(systems, inbox[1].dt, Len(systems))} :
         \E after \in {Field(runs, "sys", Len(runs))} :
           LET msg == inbox[1]
               expectedFloats == Len(systems) * STATE_STRIDE
               buf == OutputBuffer(heap, msg, expectedFloats, Len(handled) + 1)
               out == WriteAll(buf.heap[buf.id].data, after, Len(systems))
               totalEnergy == SumEnergy(Field(runs, "ret", Len(runs)), Len(systems))
           IN  /\ systems' = after
               /\ heap' = Release(Transfer([buf.heap EXCEPT ![buf.id].data = out],
                                           buf.id),
                                  msg.buffer, buf.id)
               /\ posted' = Append(posted,
                                   UpdatedMsg(msg.batchId, buf.id, out, totalEnergy))
               /\ lastRun' = RunLog(runs, Len(runs))
    /\ handled' = Append(handled, inbox[1])
    /\ inbox' = Tail(inbox)
    /\ UNCHANGED <<systemIds, probe>>

\* self.onmessage, case 'reset'
HandleReset ==
    /\ inbox # << >>
    /\ Dispatch(inbox[1].type) = "reset"
    /\ \E after \in {ResetAll(systems, Len(systems))} :
         LET msg == inbox[1]
             expectedFloats == Len(systems) * STATE_STRIDE
             buf == OutputBuffer(heap, msg, expectedFloats, Len(handled) + 1)
             out == WriteAll(buf.heap[buf.id].data, after, Len(systems))
             totalEnergy == SumEnergy(Field(after, "initialEnergy", Len(after)),
                                      Len(systems))
         IN  /\ systems' = after
             /\ heap' = Release(Transfer([buf.heap EXCEPT ![buf.id].data = out], buf.id),
                                msg.buffer, buf.id)
             /\ posted' = Append(posted, ResetMsg(msg.batchId, buf.id, out, totalEnergy))
    /\ handled' = Append(handled, inbox[1])
    /\ inbox' = Tail(inbox)
    /\ UNCHANGED <<systemIds, lastRun, probe>>

\* self.onmessage with a type the switch has no case for.
HandleOther ==
    /\ inbox # << >>
    /\ Dispatch(inbox[1].type) = "ignored"
    /\ handled' = Append(handled, inbox[1])
    /\ inbox' = Tail(inbox)
    /\ UNCHANGED <<systems, systemIds, posted, heap, lastRun, probe>>

Next ==
    \/ SendInit
    \/ SendUpdate
    \/ SendReset
    \/ SendOther
    \/ HandleInit
    \/ HandleUpdate
    \/ HandleReset
    \/ HandleOther

Spec == Init /\ [][Next]_vars

---------------------------------------------------------------------------
(* One SimSystem called directly: update(dt) again and again.              *)

\* The most calls of update(dt) in one run.
MaxCalls == 600

\* The ids of the systems, and the time deltas of the calls: a run repeats
\* one of these lists of dt, each with 0 < dt <= 1/30.
DriftIds == {0, 32}
DriftPatterns ==
    {<<Lit(1, 30)>>, <<Lit(1, 60)>>, <<Lit(1, 30), Lit(1, 120)>>,
     <<Lit(1, 120), Lit(1, 60), Lit(1, 30)>>}

NoWorker ==
    /\ systems = << >>
    /\ systemIds = << >>
    /\ inbox = << >>
    /\ posted = << >>
    /\ handled = << >>
    /\ heap = << >>
    /\ lastRun = << >>

InitDrift ==
    /\ NoWorker
    /\ probe \in {[sys |-> NewSimSystem(id), dts |-> p, calls |-> 0, hits |-> 0,
                   clamps |-> 0, branch |-> "none"] : id \in DriftIds, p \in DriftPatterns}

\* Some sub-step of the call changed b.vx: only the collision response does.
Struck(s, steps) ==
    \E n \in 1..SUB_STEPS :
        steps[n].ball.vx # (IF n = 1 THEN s ELSE steps[n - 1]).ball.vx

\* s.update(dt), with the next dt of the run's list.
CallUpdate ==
    /\ probe.calls < MaxCalls
    /\ \E r \in {update(probe.sys, probe.dts[(probe.calls % Len(probe.dts)) + 1])} :
          probe' = [probe EXCEPT !.sys = r.sys,
                                 !.calls = @ + 1,
                                 !.hits = @ + (IF Struck(probe.sys, r.steps) THEN 1 ELSE 0),
                                 !.clamps = @ + (IF r.branch = "clamped" THEN 1 ELSE 0),
                                 !.branch = r.branch]
    /\ UNCHANGED <<systems, systemIds, inbox, posted, handled, heap, lastRun>>

SpecDrift == InitDrift /\ [][CallUpdate]_vars

---------------------------------------------------------------------------
(* One SimSystem called directly: correctEnergy(stats) on a given state.   *)

\* correctEnergy is called on the states the first RunLen calls of
\* update(dt) leave after their last sub-step, and on states with every
\* combination of a few values of the fields correctEnergy reads.
RunLen == 60

RunDTs == {FromInt(1), Lit(1, 30)}

Baselines == {Zero, Lit(1, 10000000), NewSimSystem(0).initialEnergy}

GivenStates ==
    {[NewSimSystem(0) EXCEPT !.ball.y = y,
                             !.ball.vx = vx,
                             !.ball.vy = vy,
                             !.ball.angularVelocity = w,
                             !.container.angularVelocity = cw,
                             !.initialEnergy = e0] :
        y \in {FromInt(-250), FromInt(-220), Zero, FromInt(200)},
        vx \in {Zero, FromInt(300)},
        vy \in {Zero, Lit(1, 1000), FromInt(-500), FromInt(582)},
        w \in {Zero, FromInt(5)},
        cw \in {Zero, Lit(1, 10)},
        e0 \in Baselines}

\* A fresh system with RunLen calls of update(dt) left to make, or a given
\* state on which correctEnergy alone is called.
InitCorrect ==
    /\ NoWorker
    /\ probe \in {[op |-> "ready", dt |-> dt, left |-> RunLen,
                   before |-> NewSimSystem(id), sys |-> NewSimSystem(id),
                   ret |-> Zero, branch |-> "none"] : id \in DriftIds, dt \in RunDTs}
            \cup {[op |-> "given", dt |-> Zero, left |-> 0, before |-> s, sys |-> s,
                   ret |-> Zero, branch |-> "none"] : s \in GivenStates}

\* The loop of update(dt): the SUB_STEPS sub-steps, up to the call of
\* calculateEnergy.
CallSubSteps ==
    /\ probe.op \in {"ready", "corrected"}
    /\ probe.left > 0
    /\ \E steps \in {SubSteps(probe.sys, StepConsts(probe.sys, probe.dt), SUB_STEPS)} :
          probe' = [probe EXCEPT !.op = "given",
                                 !.left = @ - 1,
                                 !.before = steps[SUB_STEPS],
                                 !.sys = steps[SUB_STEPS]]
    /\ UNCHANGED <<systems, systemIds, inbox, posted, handled, heap, lastRun>>

\* const stats = this.calculateEnergy(); this.correctEnergy(stats)
CallCorrectEnergy ==
    /\ probe.op = "given"
    /\ \E r \in {correctEnergy(probe.sys, calculateEnergy(probe.sys))} :
          probe' = [probe EXCEPT !.op = "corrected",
                                 !.before = probe.sys,
                                 !.sys = r.sys,
                                 !.ret = r.ret,
                                 !.branch = r.branch]
    /\ UNCHANGED <<systems, systemIds, inbox, posted, handled, heap, lastRun>>

NextCorrect == CallSubSteps \/ CallCorrectEnergy

SpecCorrect == InitCorrect /\ [][NextCorrect]_vars

---------------------------------------------------------------------------
(* One SimSystem called directly: one iteration of the loop of update(dt). *)

\* The time deltas of the call: 0, and two whose sub-step is 1/1024 (exact)
\* and 1/960 (rounded).
StepDTs == {Zero, Lit(1, 64), Lit(1, 60)}

\* The states before the sub-step: the ball at the centre, near it, at the
\* start height, just inside the wall and on it; at rest, moving so that the
\* integration ends exactly at the centre, and moving outward.
PlacedStates(dt) ==
    {[NewSimSystem(0) EXCEPT !.ball.x = x,
                             !.ball.y = y,
                             !.ball.vx = vx,
                             !.ball.vy = vy,
                             !.ball.angularVelocity = w] :
        x \in {Zero, Lit(-3, 8)},
        y \in {Zero, FromInt(4), FromInt(-220), FromInt(269), FromInt(270)},
        vx \in {Zero, FromInt(384)},
        vy \in {Zero, FNeg(StepConsts(NewSimSystem(0), dt).gravitySubDt), FromInt(400)},
        w \in {Zero, FromInt(5)}}

InitStep ==
    /\ NoWorker
    /\ probe \in UNION {{[op |-> "placed", dt |-> dt, before |-> s, mid |-> s,
                           sys |-> s] : s \in PlacedStates(dt)} : dt \in StepDTs}

\* One iteration of the loop: mid is the system after the "Integration"
\* statements, sys the system at the end of the iteration.
CallSubStep ==
    /\ probe.op = "placed"
    /\ \E k \in {StepConsts(probe.sys, probe.dt)} :
          probe' = [probe EXCEPT !.op = "stepped",
                                 !.mid = Integrate(probe.sys, k),
                                 !.sys = SubStep(probe.sys, k)]
    /\ UNCHANGED <<systems, systemIds, inbox, posted, handled, heap, lastRun>>

SpecStep == InitStep /\ [][CallSubStep]_vars

---------------------------------------------------------------------------
(* Reading the history.                                                    *)

Last(q) == q[Len(q)]

\* The handled messages the switch has a case for, in order.
IsKnown(m) == m.type \in Known
KnownHandled == SelectSeq(handled, IsKnown)

\* The last handled message with a case, or none yet.
AnyKnown == KnownHandled # << >>
LastKnown == Last(KnownHandled)

\* The index in posted of the response to handled[j].
RespOf(j) == Cardinality({k \in 1..j : IsKnown(handled[k])})

\* The ids of the systems, in order.
Ids(sys) == [i \in 1..Len(sys) |-> sys[i].id]

\* The number of systems the shard held when it took handled[j]: the length
\* of the id list of the last 'init' before it, 0 before any.
CountAt(j) ==
    LET inits == {k \in 1..(j - 1) : handled[k].type = "init"}
    IN  IF inits = {} THEN 0
        ELSE Len(handled[CHOOSE k \in inits : \A l \in inits : l <= k].systemIds)

---------------------------------------------------------------------------
(* C1 *)

\* The start position the claim states for system id among n systems:
\* 1 + (id / n) * 0.02 - 0.01.
StartX(id, n) ==
    FAdd(One, FSub(FMul(FDiv(FromInt(id), FromInt(n)), Lit(2, 100)), Lit(1, 100)))

AtRest(s) ==
    /\ s.ball.y = FromInt(-220)
    /\ s.ball.vx = Zero /\ s.ball.vy = Zero
    /\ s.ball.angle = Zero /\ s.ball.angularVelocity = Zero
    /\ s.container.angle = Zero /\ s.container.angularVelocity = Zero

JustReset == AnyKnown /\ LastKnown.type \in {"init", "reset"}

\* C1 as stated: after 'init' and after every 'reset', each system is at rest
\* at x = 1 + (id/N)*0.02 - 0.01 with N the number of ids of this shard.
C1_StartFromShardCount ==
    JustReset =>
        \A i \in 1..Len(systems) :
            /\ AtRest(systems[i])
            /\ systems[i].ball.x = StartX(systems[i].id, Len(systems))

\* C1 (amended): after 'init' and after every 'reset', whatever 'update'
\* messages came before, each system is at rest at
\* x = 1 + (id/NUM_SYSTEMS)*0.02 - 0.01, NUM_SYSTEMS being the constant 64
\* and not the number of ids of the shard.
C1_StartFromEnsembleCount ==
    JustReset =>
        \A i \in 1..Len(systems) :
            /\ AtRest(systems[i])
            /\ systems[i].ball.x = StartX(systems[i].id, NUM_SYSTEMS)

\* A 'reset' after an 'update' that moved two systems.
C1_Witness ==
    /\ Len(handled) = 3
    /\ handled[1].type = "init" /\ handled[1].systemIds = <<0, 32>>
    /\ handled[2].type = "update" /\ handled[2].dt = FromInt(1)
    /\ handled[3].type = "reset"
    /\ Len(systems) = 2

---------------------------------------------------------------------------
(* C2 *)

Initialized == \E j \in 1..Len(handled) : handled[j].type = "init"

\* C2 as stated: once the first 'init' is handled, the ordered list of
\* systems is the same in every later state.
C2_MembershipFixed ==
    [][Initialized => (Ids(systems') = Ids(systems) /\ systemIds' = systemIds)]_vars

\* C2 (amended): the ordered list of systems always carries the ids of
\* systemIds, and it changes only when an 'init' message is handled, which
\* replaces it by the ids of that message; 'update', 'reset' and unknown
\* messages never change it.
C2_MembershipChangesOnlyOnInit ==
    /\ [](Ids(systems) = systemIds)
    /\ [][(Ids(systems') # Ids(systems) \/ systemIds' # systemIds) =>
            /\ inbox # << >>
            /\ inbox[1].type = "init"
            /\ systemIds' = inbox[1].systemIds
            /\ Ids(systems') = inbox[1].systemIds]_vars

\* An 'update', a 'reset' and an unknown message after the first 'init'.
C2_Witness ==
    /\ Len(handled) = 4
    /\ handled[1].type = "init" /\ handled[1].systemIds = <<0, 32>>
    /\ handled[2].type = "update"
    /\ handled[3].type = "reset"
    /\ handled[4].type = "bogus"
    /\ Ids(systems) = <<0, 32>>

---------------------------------------------------------------------------
(* C3 *)

ResponseType(t) ==
    CASE t = "init" -> "initialized"
      [] t = "update" -> "updated"
      [] t = "reset" -> "reset"

\* C3: in every state the messages posted are, in order, exactly one
\* response per handled 'init', 'update' and 'reset' message, of the matching
\* type, and the response to an 'update' or 'reset' carries that message's
\* batchId.
C3_OneResponsePerCommand ==
    /\ Len(posted) = Len(KnownHandled)
    /\ \A i \in 1..Len(posted) :
          /\ posted[i].type = ResponseType(KnownHandled[i].type)
          /\ KnownHandled[i].type # "init" =>
                posted[i].batchId = KnownHandled[i].batchId

\* Three responses, the last two to an 'update' and a 'reset' that were
\* sent with different tokens.
C3_Witness ==
    /\ Len(posted) = 3
    /\ posted[2].type = "updated" /\ posted[3].type = "reset"
    /\ posted[2].batchId # posted[3].batchId
    /\ Len(handled) = 4

---------------------------------------------------------------------------
(* C4 *)

LastIsStep == AnyKnown /\ LastKnown.type \in {"update", "reset"}

Slots(s) ==
    <<ToF32(s.ball.x), ToF32(s.ball.y), ToF32(s.ball.angle), ToF32(s.container.angle)>>

\* C4: after an 'update' or 'reset', the buffer of the response holds, for
\* every index i of the system order, the Float32 roundings of the i-th
\* system's ball.x, ball.y, ball.angle and container.angle as the handler
\* left them, and nothing else.
C4_BufferHoldsFinalState ==
    LastIsStep =>
        /\ Last(posted).data = heap[Last(posted).buffer].data
        /\ Len(Last(posted).data) = STATE_STRIDE * Len(systems)
        /\ \A i \in 1..Len(systems) : \A f \in 1..STATE_STRIDE :
              Last(posted).data[STATE_STRIDE * (i - 1) + f] = Slots(systems[i])[f]

\* A buffer written by two commands in turn, for two moving systems, with
\* a value the Float32 store had to round.
C4_Witness ==
    /\ LastIsStep
    /\ Len(systems) = 2
    /\ Len(posted) = 3
    /\ posted[2].buffer = posted[3].buffer
    /\ posted[2].data # posted[3].data
    /\ \E i \in 1..2 : ToF32(systems[i].ball.y) # systems[i].ball.y

---------------------------------------------------------------------------
(* C5 *)

Steps == {j \in 1..Len(handled) : handled[j].type \in {"update", "reset"}}

Fits(j) ==
    /\ handled[j].buffer # NoBuffer
    /\ heap[handled[j].buffer].byteLength = 4 * CountAt(j) * 4

\* C5: every 'update' and 'reset' message is answered, with a buffer of
\* exactly 4 * systemCount * 4 bytes: the buffer of the message when that
\* one has this length, a buffer allocated by this handler otherwise.
C5_BufferLength ==
    \A j \in Steps :
        /\ RespOf(j) <= Len(posted)
        /\ LET r == posted[RespOf(j)]
           IN  /\ r.buffer # NoBuffer
               /\ heap[r.buffer].byteLength = 4 * CountAt(j) * 4
               /\ Len(r.data) * 4 = heap[r.buffer].byteLength
               /\ IF Fits(j) THEN r.buffer = handled[j].buffer
                  ELSE heap[r.buffer].allocatedBy = j

\* Before any 'init': a buffer of the wrong length was replaced by one of 0
\* bytes, and that one, handed back, was used again.
C5_Witness ==
    /\ Len(handled) = 2
    /\ handled[1].type = "update" /\ handled[1].buffer = 1
    /\ posted[1].buffer # 1 /\ heap[posted[1].buffer].byteLength = 0
    /\ handled[2].type = "reset" /\ handled[2].buffer = posted[1].buffer
    /\ posted[2].buffer = posted[1].buffer

---------------------------------------------------------------------------
(* C6 *)

\* energy().total of every system, in order.
RECURSIVE Totals(_, _)
Totals(sys, n) ==
    IF n = 0 THEN << >> ELSE Append(Totals(sys, n - 1), calculateEnergy(sys[n]).total)

\* |potential energy| + kinetic energy of every system, in order.
RECURSIVE Magnitudes(_, _)
Magnitudes(sys, n) ==
    IF n = 0 THEN << >>
    ELSE Append(Magnitudes(sys, n - 1),
                FAdd(FAbs(PotentialEnergy(sys[n])), KineticEnergy(sys[n])))

\* 32 units of relative rounding error: 32 * 2^-Prec.
RoundingSlack == [m |-> 2^(Prec - 1), e |-> 6 - 2 * Prec]

Rescaled == \E i \in 1..Len(lastRun) : lastRun[i].branch \in {"scaled", "clamped"}

AfterUpdate == AnyKnown /\ LastKnown.type = "update"
AfterReset == AnyKnown /\ LastKnown.type = "reset"

\* C6 as stated: the totalEnergy of an 'updated' response equals the sum of
\* energy().total over the systems as the update left them, and that of a
\* 'reset' response the sum of the recomputed baselines.
C6_EnergyOfFinalState ==
    /\ AfterUpdate =>
          Last(posted).totalEnergy =
              SumEnergy(Totals(systems, Len(systems)), Len(systems))
    /\ AfterReset =>
          Last(posted).totalEnergy =
              SumEnergy(Field(systems, "initialEnergy", Len(systems)), Len(systems))

\* C6 (amended): the totalEnergy of an 'updated' response is the sum of the
\* values update(dt) returned; that sum equals the sum of energy().total
\* over the systems as the update left them exactly when no system was
\* rescaled, and otherwise only up to rounding (here: within 32 units of
\* relative rounding error of the energies' magnitude), because a rescaled
\* system returns pe + currentKE * scale * scale and not energy().total of
\* the scaled velocities.  The totalEnergy of a 'reset' response equals the
\* sum of the recomputed baselines, which is the sum of energy().total.
C6_EnergyWithinRounding ==
    /\ AfterUpdate =>
          /\ Last(posted).totalEnergy =
                SumEnergy(Field(lastRun, "ret", Len(lastRun)), Len(lastRun))
          /\ ~Rescaled =>
                Last(posted).totalEnergy =
                    SumEnergy(Totals(systems, Len(systems)), Len(systems))
          /\ FLe(FAbs(FSub(Last(posted).totalEnergy,
                           SumEnergy(Totals(systems, Len(systems)), Len(systems)))),
                 FMul(RoundingSlack,
                      SumEnergy(Magnitudes(systems, Len(systems)), Len(systems))))
    /\ AfterReset =>
          /\ Last(posted).totalEnergy =
                SumEnergy(Field(systems, "initialEnergy", Len(systems)), Len(systems))
          /\ Last(posted).totalEnergy =
                SumEnergy(Totals(systems, Len(systems)), Len(systems))

\* An 'update' of two systems in which the correction rescaled one, and the
\* value returned is not energy().total of the state left.
C6_Witness ==
    /\ AfterUpdate
    /\ Len(systems) = 2
    /\ Rescaled
    /\ Last(posted).totalEnergy #
          SumEnergy(Totals(systems, Len(systems)), Len(systems))

---------------------------------------------------------------------------
(* C7 *)

\* C7: handling a message whose type is none of 'init', 'update', 'reset'
\* posts nothing and leaves the systems, their ids, their physical state
\* and every buffer as they were.
C7_UnknownIgnored ==
    [][(inbox # << >> /\ inbox[1].type \notin Known /\ handled' # handled) =>
          /\ posted' = posted
          /\ systems' = systems
          /\ systemIds' = systemIds
          /\ heap' = heap
          /\ inbox' = Tail(inbox)]_vars

\* A message without a type was handled while two systems were moving.
C7_Witness ==
    /\ Len(handled) = 3
    /\ handled[2].type = "update" /\ handled[2].dt = FromInt(1)
    /\ handled[3].type = "undefined"
    /\ Len(systems) = 2
    /\ systems[1].ball.vy # Zero
    /\ Len(posted) = 2

---------------------------------------------------------------------------
(* C8 *)

MaxDistance == CONTAINER_RADIUS - BALL_RADIUS

\* x^2 + y^2 > MaxDistance^2 for the numbers x and y, decided exactly, in
\* integers: big is the one of larger magnitude, and a is big^2 -
\* MaxDistance^2 counted in units of 2^(2 * big.e).
ExactlyOutside(x, y) ==
    LET big == IF FLt(FAbs(x), FAbs(y)) THEN y ELSE x
        small == IF FLt(FAbs(x), FAbs(y)) THEN x ELSE y
        bits == Prec + big.e
    IN  IF big.m = 0 \/ bits <= 7 THEN FALSE
        ELSE IF bits >= 10 THEN TRUE
        ELSE LET a == big.m * big.m - MaxDistance * MaxDistance * 2^(2 * (0 - big.e))
                 t == 2 * (big.e - small.e)
             IN  IF a > 0 THEN TRUE
                 ELSE IF a = 0 THEN small.m # 0
                 ELSE IF small.m = 0 THEN FALSE
                 ELSE IF BitLen(0 - a) + t > 30 THEN FALSE
                 ELSE small.m * small.m > (0 - a) * 2^t

\* C8: along the last update(dt) of every system, after each of the 16
\* sub-steps the ball's centre is at most containerRadius - ballRadius from
\* the container's centre, and the correction at the end leaves the ball
\* where the last sub-step put it.
C8_NoPenetration ==
    /\ \A i \in 1..Len(lastRun) : \A n \in 1..SUB_STEPS :
          ~ExactlyOutside(lastRun[i].path[n][1], lastRun[i].path[n][2])
    /\ AfterUpdate =>
          \A i \in 1..Len(systems) :
              <<systems[i].ball.x, systems[i].ball.y>> = lastRun[i].path[SUB_STEPS]

---------------------------------------------------------------------------
(* C9 *)

\* C9: a 'reset' handled right after a 'reset' leaves every system as it
\* was and answers with the same buffer contents and the same totalEnergy.
C9_ResetTwice ==
    [][(/\ handled # << >>
        /\ Last(handled).type = "reset"
        /\ inbox # << >>
        /\ inbox[1].type = "reset"
        /\ handled' # handled) =>
          /\ systems' = systems
          /\ Last(posted').data = Last(posted).data
          /\ Last(posted').totalEnergy = Last(posted).totalEnergy
          /\ Len(posted') = Len(posted) + 1]_vars

\* Two 'reset' in a row after an 'update' that moved two systems.
C9_Witness ==
    /\ Len(handled) = 4
    /\ handled[1].type = "init" /\ handled[1].systemIds = <<0, 32>>
    /\ handled[2].type = "update" /\ handled[2].dt = FromInt(1)
    /\ handled[3].type = "reset"
    /\ handled[4].type = "reset"
    /\ posted[3].data = posted[4].data

---------------------------------------------------------------------------
(* C10 *)

Buffers == 1..Len(heap)

\* C10: between two messages the worker holds no buffer; a buffer changes
\* hands only from the coordinator into a message and from the handler of
\* that message back to the coordinator; and a handler writes only the
\* buffer that came with the message it handles or one it allocated.
C10_SingleOwner ==
    /\ [](\A b \in Buffers : heap[b].owner # "shard")
    /\ [](\A i \in 1..Len(posted) :
             posted[i].buffer # NoBuffer =>
                \/ heap[posted[i].buffer].owner \in {"coordinator", "inflight"}
                \/ \E j \in 1..Len(handled) : handled[j].buffer = posted[i].buffer)
    /\ [][\A b \in Buffers :
             /\ heap'[b].data # heap[b].data =>
                   /\ inbox # << >>
                   /\ handled' # handled
                   /\ inbox[1].buffer = b
                   /\ heap[b].owner = "inflight"
             /\ heap'[b].owner # heap[b].owner =>
                   \/ heap[b].owner = "coordinator" /\ heap'[b].owner = "inflight"
                                                    /\ Last(inbox').buffer = b
                   \/ heap[b].owner = "inflight" /\ inbox[1].buffer = b
                                                 /\ handled' # handled]_vars
    /\ [][\A b \in (1..Len(heap')) \ Buffers :
             /\ handled' # handled
             /\ Last(posted').buffer = b
             /\ heap'[b].owner = "coordinator"]_vars

\* A buffer the worker sent, got back and wrote again, and a buffer it
\* replaced.
C10_Witness ==
    /\ Len(posted) = 3
    /\ posted[2].buffer = posted[3].buffer
    /\ posted[2].data # posted[3].data
    /\ \E b \in Buffers : heap[b].owner = "released"

---------------------------------------------------------------------------
(* C11 *)

\* |energy().total - initialEnergy| of the system s.
Drift(s) == FAbs(FSub(calculateEnergy(s).total, s.initialEnergy))

\* C11: after every call of a run of update(dt) calls with 0 < dt <= 1/30
\* from the reset state, energy().total of the corrected state is within one
\* hundredth of initialEnergy: it neither grows nor decays away from it.
C11_EnergyNearBaseline ==
    FLe(Drift(probe.sys), FMul(Lit(1, 100), probe.sys.initialEnergy))

\* The end of a long run: the ball has struck the wall in several calls,
\* corrections were clamped and others were not, and the energy is not
\* exactly the baseline.
C11_Witness ==
    /\ probe.calls = MaxCalls
    /\ probe.hits >= 5
    /\ probe.clamps >= 5
    /\ probe.branch = "scaled"
    /\ Drift(probe.sys) # Zero

---------------------------------------------------------------------------
(* C12 *)

\* The numbers of the interval [0.99, 1.01]: from the literal 0.99 up to 1,
\* and from 1 up to the literal 1.01.
Factors ==
    {[m |-> k, e |-> 0 - Prec] : k \in Lit(99, 100).m .. (2^Prec - 1)}
    \cup {[m |-> k, e |-> 1 - Prec] : k \in 2^(Prec - 1) .. Lit(101, 100).m}

\* The four velocity-like quantities of t are those of s times f.
ScaledBy(s, t, f) ==
    /\ t.ball.vx = FMul(s.ball.vx, f)
    /\ t.ball.vy = FMul(s.ball.vy, f)
    /\ t.ball.angularVelocity = FMul(s.ball.angularVelocity, f)
    /\ t.container.angularVelocity = FMul(s.container.angularVelocity, f)

\* t is s in everything but the four velocity-like quantities.
SameButVelocities(s, t) ==
    [t EXCEPT !.ball.vx = s.ball.vx,
              !.ball.vy = s.ball.vy,
              !.ball.angularVelocity = s.ball.angularVelocity,
              !.container.angularVelocity = s.container.angularVelocity] = s

\* The baseline is below 1e-6, or the current or the target kinetic energy
\* does not exceed 1e-6.
NothingToCorrect(s) ==
    \/ FLt(s.initialEnergy, Tiny)
    \/ ~FGt(FSub(calculateEnergy(s).total, PotentialEnergy(s)), Tiny)
    \/ ~FGt(FSub(s.initialEnergy, PotentialEnergy(s)), Tiny)

\* C12: one correctEnergy call multiplies ball.vx, ball.vy, the ball's and
\* the container's angular velocity by one and the same factor of
\* [0.99, 1.01] and changes nothing else of the system; the factor is 1,
\* nothing changes, when the baseline is below 1e-6 or the current or target
\* kinetic energy does not exceed 1e-6.
C12_OneFactorForAllVelocities ==
    probe.op = "corrected" =>
        /\ \E f \in Factors : ScaledBy(probe.before, probe.sys, f)
        /\ SameButVelocities(probe.before, probe.sys)
        /\ NothingToCorrect(probe.before) => probe.sys = probe.before

\* A correction by a factor strictly between the clamps that changed all
\* four quantities.
C12_Witness ==
    /\ probe.op = "corrected"
    /\ probe.branch = "scaled"
    /\ probe.sys.ball.vx # probe.before.ball.vx
    /\ probe.sys.ball.vy # probe.before.ball.vy
    /\ probe.sys.ball.angularVelocity # probe.before.ball.angularVelocity
    /\ probe.sys.container.angularVelocity # probe.before.container.angularVelocity

---------------------------------------------------------------------------
(* C14 *)

\* dist is exactly zero: the integrated position is the container's centre.
AtCentre(s) == s.ball.x = Zero /\ s.ball.y = Zero

\* distSq < maxDistSq for the integrated position.
InsideWall(s) ==
    FLt(FAdd(FMul(s.ball.x, s.ball.x), FMul(s.ball.y, s.ball.y)),
        FMul(FromInt(MaxDistance), FromInt(MaxDistance)))

SameVelocities(s, t) ==
    /\ t.ball.vx = s.ball.vx
    /\ t.ball.vy = s.ball.vy
    /\ t.ball.angularVelocity = s.ball.angularVelocity
    /\ t.container.angularVelocity = s.container.angularVelocity

\* C14 as stated: in a sub-step where dist is exactly zero the collision
\* response is skipped and the ball's velocity is what it was before the
\* sub-step.
C14_VelocityUnchangedAtCentre ==
    (probe.op = "stepped" /\ AtCentre(probe.mid)) =>
        /\ probe.sys = probe.mid
        /\ SameVelocities(probe.before, probe.sys)

\* C14 (amended): a sub-step whose integrated position is the centre, like
\* any sub-step that ends inside the wall, completes without a division by
\* zero and without collision response: the system is as the integration
\* left it, so b.vx and the angular velocities are unchanged and b.vy has
\* grown by GRAVITY * subDt, which leaves it unchanged only for dt = 0.
C14_OnlyGravityAtCentre ==
    (probe.op = "stepped" /\ (AtCentre(probe.mid) \/ InsideWall(probe.mid))) =>
        /\ probe.sys = probe.mid
        /\ SameVelocities([probe.before EXCEPT
                              !.ball.vy = FAdd(@, FMul(GRAVITY,
                                                       FDiv(probe.dt, FromInt(SUB_STEPS))))],
                          probe.sys)
        /\ probe.dt = Zero => SameVelocities(probe.before, probe.sys)

\* A ball placed at the centre whose sub-step, with dt > 0, ends exactly at
\* the centre with another velocity.
C14_Witness ==
    /\ probe.op = "stepped"
    /\ probe.dt # Zero
    /\ AtCentre(probe.before)
    /\ AtCentre(probe.mid)
    /\ probe.sys.ball.vy # probe.before.ball.vy

====
